---- MODULE Spec2Model ----
(***************************************************************************)
(* Model of the todo backend: the credential verifier (core/auth.py), the  *)
(* access guard (core/security.py), the request/response schemas           *)
(* (schemas/todo.py), the error envelope (main.py) and the five todo       *)
(* handlers (api/routes/todos.py) over the todos table (models/todo.py).   *)
(*                                                                         *)
(* Time is an integer number of ticks; a calendar day is DayLen ticks.     *)
(* Strings that the code inspects character by character (title,           *)
(* description) are sequences of one-character strings.                    *)
(***************************************************************************)
EXTENDS Integers, Sequences, FiniteSets, TLC

VARIABLES store, nextId, clock, born, gone, last, running, settings

vars == <<store, nextId, clock, born, gone, last, running, settings>>

(***************************************************************************)
(* Bounds of the model.                                                    *)
(***************************************************************************)
MaxTodos == 2
MaxTime == 2
DayLen == 2

Users == {1, 2}
Times == 0..MaxTime
TodoIds == 1..(MaxTodos + 1)

Min(a, b) == IF a <= b THEN a ELSE b

(***************************************************************************)
(* Python / JSON values.  A JSON claim value is a tagged record: k is its  *)
(* Python type after json decoding, v its numeric content.  bool is a      *)
(* subclass of int in Python: True == 1 and isinstance(True, int).         *)
(***************************************************************************)
PyVal(k, v) == [k |-> k, v |-> v]
PyInt(v) == PyVal("int", v)
PyNone == PyVal("none", 0)
ClaimAbsent == PyVal("absent", 0)

\* isinstance(x, int)
isinstance_int(x) == x.k \in {"int", "bool"}

\* x != n for a Python value x and an int n (path parameters are ints)
py_ne_int(x, n) == ~(x.k \in {"int", "bool", "float"} /\ x.v = n)

(***************************************************************************)
(* Bearer credentials.  A token is described by what jwt.decode looks at:  *)
(*   wellformed  three decodable segments                                  *)
(*   sig         "good": HS256 signature valid under BETTER_AUTH_SECRET    *)
(*   reg         registered claims other than exp: "ok", "immature" (nbf   *)
(*               or iat in the future), "audience" (an aud claim, none     *)
(*               expected)                                                 *)
(*   exp         expiry instant, NoExp when the claim is absent            *)
(*   uid         the user_id claim                                         *)
(* A header is absent ("none"), the empty string ("empty"), a value that   *)
(* does not start with "Bearer " ("other"), or "Bearer " + token.          *)
(***************************************************************************)
NoExp == -1

Token(wf, sig, reg, exp, uid) ==
  [wellformed |-> wf, sig |-> sig, reg |-> reg, exp |-> exp, uid |-> uid]

GoodToken(u) == Token(TRUE, "good", "ok", MaxTime + 1, PyInt(u))

Header(raw, tok) == [raw |-> raw, token |-> tok]

NoHeader == Header("none", GoodToken(1))

Bearer(tok) == Header("bearer", tok)

\* Variant: a token is still good at the instant it expires.
jwt_decode_expired_late(exp, now) == exp # NoExp /\ exp < now

\* jwt.decode(token, settings.BETTER_AUTH_SECRET, algorithms=["HS256"]) at time now:
\* the exception it raises, or "ok".  exp <= now is expired (no leeway).
jwt_decode_expired(exp, now) == exp # NoExp /\ exp <= now

\* Variant: the signature is not verified.
jwt_decode_unverified(token, now) ==
  IF ~token.wellformed THEN "DecodeError"
  ELSE IF token.reg = "immature" THEN "ImmatureSignatureError"
  ELSE IF jwt_decode_expired(token.exp, now) THEN "ExpiredSignatureError"
  ELSE IF token.reg = "audience" THEN "InvalidAudienceError"
  ELSE "ok"

jwt_decode(token, now) ==
  IF ~token.wellformed THEN "DecodeError"
  ELSE IF token.sig # "good" THEN "InvalidSignatureError"
  ELSE IF token.reg = "immature" THEN "ImmatureSignatureError"
  ELSE IF jwt_decode_expired(token.exp, now) THEN "ExpiredSignatureError"
  ELSE IF token.reg = "audience" THEN "InvalidAudienceError"
  ELSE "ok"

(***************************************************************************)
(* HTTPException and the error envelope.                                   *)
(***************************************************************************)
\* A message text with the number formatted into it (0 when there is none).
Msg(text, n) == <<text, n>>

\* An HTTPException: detail is either a plain string (is_str) or the dict
\* {"error": {...}}, of which the model keeps the message text.
HTTPException(status_code, is_str, detail) ==
  [status_code |-> status_code, is_str |-> is_str, detail |-> detail]

status_code_map(status_code) ==
  CASE status_code = 401 -> "UNAUTHORIZED"
    [] status_code = 403 -> "FORBIDDEN"
    [] status_code = 404 -> "NOT_FOUND"
    [] status_code = 422 -> "VALIDATION_ERROR"
    [] status_code = 500 -> "INTERNAL_SERVER_ERROR"
    [] OTHER -> "ERROR"

\* The response: status, error code, message, details, and the todos of the body
\* (none for an error or a 204, one for a single todo, the sequence for a list).
Response(status, code, message, details, body) ==
  [status |-> status, code |-> code, message |-> message, details |-> details,
   body |-> body]

NoBody == <<>>

\* A string detail becomes the message and leaves details empty; any other detail
\* gives the message "Request failed" and details [str(detail)].
http_exception_handler(exc) ==
  Response(exc.status_code,
           status_code_map(exc.status_code),
           IF exc.is_str THEN exc.detail ELSE Msg("Request failed", 0),
           IF exc.is_str THEN <<>> ELSE <<exc.detail>>,
           NoBody)

(***************************************************************************)
(* Credential verifier.                                                    *)
(***************************************************************************)
\* Outcome of a dependency: ok with a value, or a raised HTTPException.
Ok(value) == [ok |-> TRUE, value |-> value, exc |-> HTTPException(200, TRUE, Msg("", 0))]
Raise(exc) == [ok |-> FALSE, value |-> PyNone, exc |-> exc]

Unauthorized(message) == Raise(HTTPException(401, FALSE, Msg(message, 0)))

verify_claims(uid) ==
  IF uid.k = "absent" THEN Unauthorized("Invalid token claims")
  ELSE IF ~isinstance_int(uid) THEN Unauthorized("Invalid user_id in token")
  ELSE Ok(uid)

verify_jwt_token(authorization, now) ==
  IF authorization.raw \in {"none", "empty"}
    THEN Unauthorized("Missing authentication token")
  ELSE IF authorization.raw # "bearer"
    THEN Unauthorized("Invalid token format")
  ELSE LET decoded == jwt_decode(authorization.token, now) IN
    IF decoded = "ok" THEN verify_claims(authorization.token.uid)
    ELSE IF decoded = "ExpiredSignatureError" THEN Unauthorized("Token expired")
    ELSE Unauthorized("Invalid token signature")

\* get_current_user_id: token_payload["user_id"] of the verified payload.
get_current_user_id(authorization, now) == verify_jwt_token(authorization, now)

(***************************************************************************)
(* Access guard.                                                           *)
(***************************************************************************)
\* Variant: the guard lets every principal through.
validate_user_access_open(token_user_id, resource_user_id) == Ok(PyNone)

validate_user_access(token_user_id, resource_user_id) ==
  IF py_ne_int(token_user_id, resource_user_id)
    THEN Raise(HTTPException(403, FALSE, Msg("You can only access your own resources", 0)))
    ELSE Ok(PyNone)

(***************************************************************************)
(* JSON request bodies and the todo schemas.  A JSON value is a record     *)
(* [k, n, s]: k its kind ("unset" when the key is not in the body, "null", *)
(* "str", "bool", "time" for a parseable datetime, "num" for any other     *)
(* number), n its numeric content, s its characters.                       *)
(***************************************************************************)
J(k, n, s) == [k |-> k, n |-> n, s |-> s]
JUnset == J("unset", 0, <<>>)
JNull == J("null", 0, <<>>)
JStr(s) == J("str", 0, s)
JBool(b) == J("bool", IF b THEN 1 ELSE 0, <<>>)
JTime(t) == J("time", t, <<>>)
JNum(n) == J("num", n, <<>>)

MaxTitleLen == 200
MaxDescLen == 1000

Whitespace == {" ", "\t", "\n"}

RECURSIVE lstrip(_)
lstrip(s) == IF s # <<>> /\ Head(s) \in Whitespace THEN lstrip(Tail(s)) ELSE s

RECURSIVE rstrip(_)
rstrip(s) ==
  IF s # <<>> /\ s[Len(s)] \in Whitespace THEN rstrip(SubSeq(s, 1, Len(s) - 1)) ELSE s

\* str.strip()
strip(s) == rstrip(lstrip(s))

PriorityEnum == {"high", "medium", "low"}

\* PriorityEnum(value): the member whose value is the given string, "" when none.
PriorityOf(s) ==
  IF s = <<"h", "i", "g", "h">> THEN "high"
  ELSE IF s = <<"m", "e", "d", "i", "u", "m">> THEN "medium"
  ELSE IF s = <<"l", "o", "w">> THEN "low"
  ELSE ""

PriorityStr(p) ==
  CASE p = "high" -> <<"h", "i", "g", "h">>
    [] p = "medium" -> <<"m", "e", "d", "i", "u", "m">>
    [] p = "low" -> <<"l", "o", "w">>

\* The body of a request: every key the model distinguishes.  The schemas declare
\* title, description, completed, due_date, priority; user_id, id and created_at
\* are keys a client may send that the schemas do not declare.
Body(title, description, completed, due_date, priority, user_id, id, created_at) ==
  [title |-> title, description |-> description, completed |-> completed,
   due_date |-> due_date, priority |-> priority,
   user_id |-> user_id, id |-> id, created_at |-> created_at]

SchemaFields == {"title", "description", "completed", "due_date", "priority"}

\* Variant: the title is checked for its length only.
title_error_length_only(v, required) ==
  IF v.k = "unset" THEN (IF required THEN "title: Field required" ELSE "")
  ELSE IF v.k = "null" THEN (IF required THEN "title: Input should be a valid string" ELSE "")
  ELSE IF v.k # "str" THEN "title: Input should be a valid string"
  ELSE IF Len(v.s) > MaxTitleLen THEN "title: String should have at most 200 characters"
  ELSE ""

\* Field errors ("" when the field validates).  Length constraints of Field(...)
\* apply to the raw string, the field_validator runs after them.
title_error(v, required) ==
  IF v.k = "unset" THEN (IF required THEN "title: Field required" ELSE "")
  ELSE IF v.k = "null" THEN (IF required THEN "title: Input should be a valid string" ELSE "")
  ELSE IF v.k # "str" THEN "title: Input should be a valid string"
  ELSE IF Len(v.s) < 1 THEN "title: String should have at least 1 character"
  ELSE IF Len(v.s) > MaxTitleLen THEN "title: String should have at most 200 characters"
  ELSE IF strip(v.s) = <<>> THEN "title: Value error, Title cannot be empty or whitespace only"
  ELSE ""

description_error(v) ==
  IF v.k \in {"unset", "null"} THEN ""
  ELSE IF v.k # "str" THEN "description: Input should be a valid string"
  ELSE IF Len(v.s) > MaxDescLen THEN "description: String should have at most 1000 characters"
  ELSE ""

completed_error(v, nullable) ==
  IF v.k = "unset" THEN ""
  ELSE IF v.k = "null" THEN (IF nullable THEN "" ELSE "completed: Input should be a valid boolean")
  ELSE IF v.k # "bool" THEN "completed: Input should be a valid boolean"
  ELSE ""

due_date_error(v) ==
  IF v.k \in {"unset", "null", "time"} THEN ""
  ELSE "due_date: Input should be a valid datetime"

priority_error(v, nullable) ==
  IF v.k = "unset" THEN ""
  ELSE IF v.k = "null" THEN (IF nullable THEN "" ELSE "priority: Input should be 'high', 'medium' or 'low'")
  ELSE IF v.k # "str" \/ PriorityOf(v.s) = "" THEN "priority: Input should be 'high', 'medium' or 'low'"
  ELSE ""

Errors(list) == SelectSeq(list, LAMBDA e : e # "")

\* Variant: the title is kept as sent.
validate_title_raw(v) == v

\* validate_title / validate_description: the value after the validators.
validate_title(v) == IF v.k = "str" THEN JStr(strip(v.s)) ELSE v

validate_description(v) ==
  IF v.k = "str" THEN (IF strip(v.s) = <<>> THEN JNull ELSE JStr(strip(v.s))) ELSE v

\* TodoCreate: the validation errors of a body, and the parsed model (defaults
\* applied) when there are none.
TodoCreate_errors(body) ==
  Errors(<<title_error(body.title, TRUE), description_error(body.description),
           completed_error(body.completed, FALSE), due_date_error(body.due_date),
           priority_error(body.priority, FALSE)>>)

TodoCreate(body) ==
  [title |-> validate_title(body.title),
   description |-> IF body.description.k = "unset" THEN JNull
                   ELSE validate_description(body.description),
   completed |-> IF body.completed.k = "unset" THEN JBool(FALSE) ELSE body.completed,
   due_date |-> IF body.due_date.k = "unset" THEN JNull ELSE body.due_date,
   priority |-> IF body.priority.k = "unset" THEN JStr(PriorityStr("medium"))
                ELSE body.priority]

\* TodoUpdate: every field optional and nullable; keys the schema does not declare
\* are ignored.
TodoUpdate_errors(body) ==
  Errors(<<title_error(body.title, FALSE), description_error(body.description),
           completed_error(body.completed, TRUE), due_date_error(body.due_date),
           priority_error(body.priority, TRUE)>>)

\* Variant: the schema keeps the keys it does not declare (extra = "allow").
TodoUpdate_extra_allow(body) ==
  [f \in DOMAIN body |->
     IF f = "title" THEN validate_title(body.title)
     ELSE IF f = "description" THEN validate_description(body.description)
     ELSE body[f]]

TodoUpdate(body) ==
  [title |-> validate_title(body.title),
   description |-> validate_description(body.description),
   completed |-> body.completed,
   due_date |-> body.due_date,
   priority |-> body.priority]

\* Variant: model_dump() without exclude_unset, every declared field.
model_dump_all(todo_data) == DOMAIN todo_data

\* todo_data.model_dump(exclude_unset=True): the declared fields the body set.
model_dump_exclude_unset(todo_data) == {f \in DOMAIN todo_data : todo_data[f].k # "unset"}

\* validation_exception_handler: the 422 of a body that fails its schema.
validation_exception_handler(errors) ==
  Response(422, "VALIDATION_ERROR", Msg("Invalid input data", 0),
           [i \in DOMAIN errors |-> Msg(errors[i], 0)], NoBody)

\* general_exception_handler: the 500 of any other exception.
general_exception_handler ==
  Response(500, "INTERNAL_SERVER_ERROR", Msg("An unexpected error occurred", 0),
           <<Msg("Please contact support if this issue persists", 0)>>, NoBody)

\* The handler above is registered for fastapi.HTTPException.  The router answers
\* a path or method that no route matches by raising the base class
\* starlette.exceptions.HTTPException, which that registration does not cover:
\* the framework's own handler answers with the body {"detail": <text>}, kept
\* here in the body field, and no error object.
framework_http_exception_handler(exc) ==
  Response(exc.status_code, "", Msg("", 0), <<>>, <<exc.detail>>)

RouteNotFound == HTTPException(404, TRUE, Msg("Not Found", 0))

(***************************************************************************)
(* The todos table.  store is the set of rows; the five client-settable    *)
(* columns hold JSON values (JNull for SQL NULL).  nextId is the next      *)
(* value of the primary-key sequence.                                      *)
(***************************************************************************)
Todo(id, user_id, data, created_at, updated_at) ==
  [id |-> id, user_id |-> user_id,
   title |-> data.title, description |-> data.description,
   completed |-> data.completed, due_date |-> data.due_date,
   priority |-> data.priority,
   created_at |-> created_at, updated_at |-> updated_at]

\* The rows of the users table (todos.user_id is a foreign key to users.id).
UserTable == Users

\* Columns declared non-Optional are NOT NULL.
not_null_ok(todo) ==
  todo.title.k # "null" /\ todo.completed.k # "null" /\ todo.priority.k # "null"

foreign_key_ok(todo) == todo.user_id \in UserTable

\* Variant: the instant itself stands for its date.
date_as_instant(t) == t

\* datetime.date(): the calendar day of an instant.
date(t) == t \div DayLen

\* compute_due_date_status(due_date), with now the clock read it makes.
compute_due_date_status(due_date, now) ==
  IF due_date.k = "null" THEN "no_due_date"
  ELSE IF date(due_date.n) < date(now) THEN "overdue"
  ELSE IF date(due_date.n) = date(now) THEN "due_today"
  ELSE "upcoming"

\* TodoResponse.model_validate(todo) with due_date_status filled in.
TodoResponse(todo, now) ==
  [id |-> todo.id, title |-> todo.title, description |-> todo.description,
   completed |-> todo.completed, due_date |-> todo.due_date,
   due_date_status |-> compute_due_date_status(todo.due_date, now),
   priority |-> todo.priority, user_id |-> todo.user_id,
   created_at |-> todo.created_at, updated_at |-> todo.updated_at]

\* Variant: the query filters by id alone.
select_by_id_only(st, todo_id, user_id) == {t \in st : t.id = todo_id}

\* select(Todo).where(Todo.id == todo_id, Todo.user_id == user_id)
select_by_id_and_user(st, todo_id, user_id) ==
  {t \in st : t.id = todo_id /\ t.user_id = user_id}

\* The outcome of a handler: the response, the table and the sequence after it, and
\* the steps it took, in order ("guard", "select", "insert", "update", "delete",
\* "commit").
Result(resp, st, nid, trace) == [resp |-> resp, store |-> st, nextId |-> nid, trace |-> trace]

\* detail=f"Todo with ID {todo_id} not found"
NotFound(todo_id) == HTTPException(404, TRUE, Msg("Todo with ID not found", todo_id))

Success(status, todos) == Response(status, "", Msg("", 0), <<>>, todos)

(***************************************************************************)
(* create_todo                                                             *)
(***************************************************************************)
\* Variant: the two clock reads are assigned the other way round.
create_stamps_swapped(t_created, t_updated) ==
  [created_at |-> t_updated, updated_at |-> t_created]

\* created_at=datetime.utcnow(), updated_at=datetime.utcnow(): two reads, in this order.
create_stamps(t_created, t_updated) == [created_at |-> t_created, updated_at |-> t_updated]

\* Variant: the new row takes the lowest id that no row of the table holds.
create_todo_reuse_id(user_id, todo_data, current_user_id, st, nid, t_created, t_updated, t_status) ==
  LET access == validate_user_access(current_user_id, user_id)
      stamps == create_stamps(t_created, t_updated)
      free == CHOOSE i \in 1..nid : (\A t \in st : t.id # i) /\
                                    (\A j \in 1..nid : (\A t \in st : t.id # j) => i <= j)
      todo == Todo(free, user_id, todo_data, stamps.created_at, stamps.updated_at)
  IN IF ~access.ok
       THEN Result(http_exception_handler(access.exc), st, nid, <<"guard">>)
     ELSE Result(Success(201, <<TodoResponse(todo, t_status)>>),
                 st \cup {todo}, nid + 1, <<"guard", "insert", "commit">>)

create_todo(user_id, todo_data, current_user_id, st, nid, t_created, t_updated, t_status) ==
  LET access == validate_user_access(current_user_id, user_id)
      stamps == create_stamps(t_created, t_updated)
      todo == Todo(nid, user_id, todo_data, stamps.created_at, stamps.updated_at)
  IN IF ~access.ok
       THEN Result(http_exception_handler(access.exc), st, nid, <<"guard">>)
     ELSE IF ~(not_null_ok(todo) /\ foreign_key_ok(todo))
       THEN Result(general_exception_handler, st, nid + 1, <<"guard", "insert">>)
     ELSE Result(Success(201, <<TodoResponse(todo, t_status)>>),
                 st \cup {todo}, nid + 1, <<"guard", "insert", "commit">>)

(***************************************************************************)
(* get_todo                                                                *)
(***************************************************************************)
get_todo(user_id, todo_id, current_user_id, st, nid, t_status) ==
  LET access == validate_user_access(current_user_id, user_id)
      found == select_by_id_and_user(st, todo_id, user_id)
  IN IF ~access.ok
       THEN Result(http_exception_handler(access.exc), st, nid, <<"guard">>)
     ELSE IF found = {}
       THEN Result(http_exception_handler(NotFound(todo_id)), st, nid, <<"guard", "select">>)
     ELSE Result(Success(200, <<TodoResponse(CHOOSE t \in found : TRUE, t_status)>>),
                 st, nid, <<"guard", "select">>)

(***************************************************************************)
(* update_todo                                                             *)
(***************************************************************************)
\* for field, value in update_data.items(): setattr(todo, field, value)
\* todo.updated_at = datetime.utcnow()
\* The integer columns take the number of the value given.
attr_value(field, value) ==
  IF field \in {"id", "user_id", "created_at", "updated_at"} THEN value.n ELSE value

apply_update(todo, todo_data, update_data, now) ==
  [f \in DOMAIN todo |->
     IF f = "updated_at" THEN now
     ELSE IF f \in update_data THEN attr_value(f, todo_data[f])
     ELSE todo[f]]

update_todo(user_id, todo_id, todo_data, current_user_id, st, nid, t_updated, t_status) ==
  LET access == validate_user_access(current_user_id, user_id)
      update_data == model_dump_exclude_unset(todo_data)
      found == select_by_id_and_user(st, todo_id, user_id)
      old == CHOOSE t \in found : TRUE
      todo == apply_update(old, todo_data, update_data, t_updated)
  IN IF ~access.ok
       THEN Result(http_exception_handler(access.exc), st, nid, <<"guard">>)
     ELSE IF update_data = {}
       THEN Result(http_exception_handler(
                     HTTPException(422, TRUE,
                                   Msg("At least one field must be provided for update", 0))),
                   st, nid, <<"guard">>)
     ELSE IF found = {}
       THEN Result(http_exception_handler(NotFound(todo_id)), st, nid, <<"guard", "select">>)
     ELSE IF ~not_null_ok(todo)
       THEN Result(general_exception_handler, st, nid, <<"guard", "select", "update">>)
     ELSE Result(Success(200, <<TodoResponse(todo, t_status)>>),
                 (st \ {old}) \cup {todo}, nid, <<"guard", "select", "update", "commit">>)

(***************************************************************************)
(* delete_todo                                                             *)
(***************************************************************************)
\* Variant: the row is found and 204 answered, but nothing is removed.
delete_todo_keep(user_id, todo_id, current_user_id, st, nid) ==
  LET access == validate_user_access(current_user_id, user_id)
      found == select_by_id_and_user(st, todo_id, user_id)
  IN IF ~access.ok
       THEN Result(http_exception_handler(access.exc), st, nid, <<"guard">>)
     ELSE IF found = {}
       THEN Result(http_exception_handler(NotFound(todo_id)), st, nid, <<"guard", "select">>)
     ELSE Result(Success(204, NoBody), st, nid, <<"guard", "select", "delete", "commit">>)

delete_todo(user_id, todo_id, current_user_id, st, nid) ==
  LET access == validate_user_access(current_user_id, user_id)
      found == select_by_id_and_user(st, todo_id, user_id)
  IN IF ~access.ok
       THEN Result(http_exception_handler(access.exc), st, nid, <<"guard">>)
     ELSE IF found = {}
       THEN Result(http_exception_handler(NotFound(todo_id)), st, nid, <<"guard", "select">>)
     ELSE Result(Success(204, NoBody),
                 st \ found, nid, <<"guard", "select", "delete", "commit">>)

(***************************************************************************)
(* list_todos                                                              *)
(***************************************************************************)
\* Query parameters: completed is "" (absent), "true" or "false"; priority and
\* due_date_status are "" when absent; sort and order have defaults.
Params(completed, priority, due_date_status, sort, order) ==
  [completed |-> completed, priority |-> priority,
   due_date_status |-> due_date_status, sort |-> sort, order |-> order]

DefaultParams == Params("", "", "", "created_at", "desc")

\* datetime.combine(today, datetime.min.time()) and (today, datetime.max.time())
start_of_day(now) == date(now) * DayLen
end_of_day(now) == date(now) * DayLen + (DayLen - 1)

\* The columns of the table, and attributes of the model class that are not
\* columns: getattr(Todo, sort, Todo.created_at) returns any of them when sort
\* names it, and only a name the class does not have gives Todo.created_at.
NumberColumns == {"id", "user_id", "completed", "due_date", "priority", "category_id",
                  "created_at", "updated_at"}
TextColumns == {"title", "description"}
SortColumns == NumberColumns \cup TextColumns
NonColumnAttributes == {"metadata", "__tablename__", "model_dump"}

\* The due_date_status branch at line 193 evaluates datetime.timedelta on the
\* datetime class, which has no such attribute; .asc() and .desc() at lines 202
\* and 204 do not exist on an attribute that is not a column.
list_raises(params) ==
  \/ params.due_date_status = "upcoming"
  \/ params.sort \in NonColumnAttributes

due_filter(t, status, now) ==
  CASE status = "overdue" -> t.due_date.k # "null" /\ t.due_date.n < now
    [] status = "due_today" ->
         /\ t.due_date.k # "null"
         /\ t.due_date.n >= start_of_day(now)
         /\ t.due_date.n < end_of_day(now)
    [] status = "no_due_date" -> t.due_date.k = "null"
    [] OTHER -> TRUE

\* Variant: the priority filter is not applied.
list_where_no_priority(t, user_id, params, now) ==
  /\ t.user_id = user_id
  /\ (params.completed # "" => t.completed = JBool(params.completed = "true"))
  /\ due_filter(t, params.due_date_status, now)

list_where(t, user_id, params, now) ==
  /\ t.user_id = user_id
  /\ (params.completed # "" => t.completed = JBool(params.completed = "true"))
  /\ (params.priority # "" => t.priority = JStr(PriorityStr(params.priority)))
  /\ due_filter(t, params.due_date_status, now)

\* NULL sorts as larger than every value.
NullKey == 1000000

\* The enum type orders its members as declared: HIGH, MEDIUM, LOW.
priority_rank(p) ==
  CASE PriorityOf(p.s) = "high" -> 0
    [] PriorityOf(p.s) = "medium" -> 1
    [] OTHER -> 2

\* The order of the characters used in text values.
Alphabet == <<" ", "a", "b", "d", "e", "g", "n", "r", "t", "u", "x">>
CharCode(c) == CHOOSE i \in DOMAIN Alphabet : Alphabet[i] = c

RECURSIVE text_less(_, _)
text_less(s, t) ==
  IF t = <<>> THEN FALSE
  ELSE IF s = <<>> THEN TRUE
  ELSE IF Head(s) # Head(t) THEN CharCode(Head(s)) < CharCode(Head(t))
  ELSE text_less(Tail(s), Tail(t))

\* sort_column = getattr(Todo, sort, Todo.created_at)
sort_column(sort) == IF sort \in SortColumns THEN sort ELSE "created_at"

sort_key(t, sort) ==
  CASE sort_column(sort) \in {"id", "user_id", "created_at", "updated_at"} ->
         t[sort_column(sort)]
    [] sort_column(sort) = "completed" -> t.completed.n
    [] sort_column(sort) = "due_date" ->
         IF t.due_date.k = "null" THEN NullKey ELSE t.due_date.n
    [] sort_column(sort) = "priority" -> priority_rank(t.priority)
    [] sort_column(sort) = "category_id" -> NullKey
    [] OTHER -> t[sort_column(sort)]

\* a sorts before b in ascending order of the column.
key_less(a, b, sort) ==
  IF sort_column(sort) \in TextColumns
    THEN IF a.k = "null" THEN FALSE
         ELSE IF b.k = "null" THEN TRUE
         ELSE text_less(a.s, b.s)
  ELSE a < b

\* The sequences over the rows of M, each once.
Orderings(M) ==
  {s \in [1..Cardinality(M) -> M] : \A i, j \in 1..Cardinality(M) : i # j => s[i] # s[j]}

\* Variant: the direction is ignored and the rows come in ascending order.
order_by_asc(M, sort, order, tie) ==
  CHOOSE s \in Orderings(M) :
    \A i, j \in DOMAIN s : i < j =>
      LET a == sort_key(s[i], sort)
          b == sort_key(s[j], sort)
      IN IF a = b THEN tie[s[i].id] < tie[s[j].id]
         ELSE key_less(a, b, sort)

\* order_by(sort_column.asc() | .desc()); rows with equal keys come in the order the
\* database happens to produce, given by tie.
order_by(M, sort, order, tie) ==
  CHOOSE s \in Orderings(M) :
    \A i, j \in DOMAIN s : i < j =>
      LET a == sort_key(s[i], sort)
          b == sort_key(s[j], sort)
      IN IF a = b THEN tie[s[i].id] < tie[s[j].id]
         ELSE IF order = "asc" THEN key_less(a, b, sort) ELSE key_less(b, a, sort)

list_todos(user_id, params, current_user_id, st, nid, tie, t_filter, t_status) ==
  LET access == validate_user_access(current_user_id, user_id)
      rows == {t \in st : list_where(t, user_id, params, t_filter)}
      todos == order_by(rows, params.sort, params.order, tie)
  IN IF ~access.ok
       THEN Result(http_exception_handler(access.exc), st, nid, <<"guard">>)
     ELSE IF list_raises(params)
       THEN Result(general_exception_handler, st, nid, <<"guard">>)
     ELSE Result(Success(200, [i \in DOMAIN todos |-> TodoResponse(todos[i], t_status)]),
                 st, nid, <<"guard", "select">>)

(***************************************************************************)
(* A request from the dependency get_current_user_id to the response.      *)
(* The credential is verified first; then the body is validated against    *)
(* the schema of the handler's todo_data parameter; then the handler runs. *)
(* reads are the clock reads of the request, in order: jwt.decode, two     *)
(* reads of the handler, compute_due_date_status.                          *)
(***************************************************************************)
Request(op, hdr, user_id, todo_id, body, params) ==
  [op |-> op, hdr |-> hdr, user_id |-> user_id, todo_id |-> todo_id,
   body |-> body, params |-> params]

schema_errors(req) ==
  CASE req.op = "create" -> TodoCreate_errors(req.body)
    [] req.op = "update" -> TodoUpdate_errors(req.body)
    [] OTHER -> <<>>

dispatch(req, principal, st, nid, tie, reads) ==
  CASE req.op = "create" ->
         create_todo(req.user_id, TodoCreate(req.body), principal, st, nid,
                     reads[2], reads[3], reads[4])
    [] req.op = "list" ->
         list_todos(req.user_id, req.params, principal, st, nid, tie, reads[2], reads[4])
    [] req.op = "get" ->
         get_todo(req.user_id, req.todo_id, principal, st, nid, reads[4])
    [] req.op = "update" ->
         update_todo(req.user_id, req.todo_id, TodoUpdate(req.body), principal, st, nid,
                     reads[2], reads[4])
    [] req.op = "delete" ->
         delete_todo(req.user_id, req.todo_id, principal, st, nid)

handle(req, st, nid, tie, reads) ==
  LET auth == get_current_user_id(req.hdr, reads[1])
      errors == schema_errors(req)
      out == dispatch(req, auth.value, st, nid, tie, reads)
  IN IF req.op = "unrouted"
       THEN Result(framework_http_exception_handler(RouteNotFound), st, nid, <<>>)
     ELSE IF ~auth.ok
       THEN Result(http_exception_handler(auth.exc), st, nid, <<"verify">>)
     ELSE IF errors # <<>>
       THEN Result(validation_exception_handler(errors), st, nid, <<"verify", "schema">>)
     ELSE Result(out.resp, out.store, out.nextId, <<"verify", "schema">> \o out.trace)

(***************************************************************************)
(* State.  store, nextId: the todos table and its id sequence.  clock: the *)
(* UTC clock, which never moves backwards.  gone: the ids whose delete was *)
(* answered 204.  born: for every todo ever                                *)
(* inserted, its id, owner and created_at at insertion.  last: the request *)
(* whose response is on its way to the client (op "none" when there is     *)
(* none): the request, the clock reads made for it, the principal the      *)
(* verifier gave, the response, the steps taken, the table before it, and  *)
(* the ids of the rows it changed or removed and of those it added.        *)
(* Requests are served one at a time, except those of running: the update  *)
(* and delete requests that the workers serve step by step, each with the  *)
(* rows its session has loaded and, once it has ended, its response.       *)
(* settings: the configuration loaded at start.                            *)
(***************************************************************************)
EmptyBody == Body(JUnset, JUnset, JUnset, JUnset, JUnset, JUnset, JUnset, JUnset)

NoRequest == Request("none", NoHeader, 0, 0, EmptyBody, DefaultParams)

Idle ==
  [req |-> NoRequest, reads |-> [i \in 1..4 |-> 0], principal |-> PyNone,
   resp |-> Success(0, NoBody),
   trace |-> <<>>, before |-> {}, changed |-> {}, added |-> {}]

\* The workers that serve requests at the same time, each with its own database
\* session (get_session opens one per request), and a worker serving nothing.
Workers == {1, 2}

IdleWorker ==
  [op |-> "none", pc |-> "idle", user_id |-> 0, todo_id |-> 0, body |-> EmptyBody,
   rows |-> {}, resp |-> Success(0, NoBody)]

\* Settings: the fields the token code reads.  A secret stands for a string of
\* at least 32 characters.
Settings(better_auth_secret, jwt_secret, jwt_algorithm) ==
  [BETTER_AUTH_SECRET |-> better_auth_secret, JWT_SECRET |-> jwt_secret,
   JWT_ALGORITHM |-> jwt_algorithm]

Secrets == {"secret-1", "secret-2"}

Algorithms == {"HS256", "HS384"}

ValidSettings ==
  {Settings(b, j, a) : b \in Secrets, j \in Secrets, a \in Algorithms}

DefaultSettings == Settings("secret-1", "secret-1", "HS256")

InitTables ==
  /\ store = {}
  /\ nextId = 1
  /\ clock = 0
  /\ born = {}
  /\ gone = {}
  /\ last = Idle
  /\ running = [w \in Workers |-> IdleWorker]

\* One deployment, whose two secrets are the same string and whose algorithm is
\* the default.
Init == InitTables /\ settings = DefaultSettings

\* Any deployment whose environment Settings accepts.
InitSettings == InitTables /\ settings \in ValidSettings

\* The clock reads of one request when the clock may advance between any two of
\* them, and when it stands still.
ReadTimes(c) ==
  {r \in [1..4 -> c..Min(c + 1, MaxTime)] : \A i \in 1..3 : r[i] <= r[i + 1]}

SameTime(c) == {[i \in 1..4 |-> c]}

TieBreaks(op) ==
  IF op = "list" THEN Permutations(1..MaxTodos) ELSE {[i \in 1..MaxTodos |-> i]}

NewRows(before, after) == {x \in after : \A y \in before : y.id # x.id}

Serve(req, R) ==
  /\ last.req.op = "none"
  /\ UNCHANGED <<running, settings>>
  /\ \E reads \in R, tie \in TieBreaks(req.op) :
       LET out == handle(req, store, nextId, tie, reads) IN
         /\ store' = out.store
         /\ nextId' = out.nextId
         /\ clock' = reads[4]
         /\ born' = born \cup {[id |-> t.id, user_id |-> t.user_id,
                               created_at |-> t.created_at] :
                               t \in NewRows(store, out.store)}
         /\ gone' = IF req.op = "delete" /\ out.resp.status = 204
                      THEN gone \cup {req.todo_id} ELSE gone
         /\ last' = [req |-> req, reads |-> reads,
                     principal |-> get_current_user_id(req.hdr, reads[1]).value,
                     resp |-> out.resp, trace |-> out.trace, before |-> store,
                     changed |-> {t.id : t \in store \ out.store},
                     added |-> {t.id : t \in NewRows(store, out.store)}]

CreateTodo(H, U, B, R, cap) ==
  /\ nextId <= cap
  /\ \E hdr \in H, u \in U, body \in B :
       Serve(Request("create", hdr, u, 0, body, DefaultParams), R)

ListTodos(H, U, P, R) ==
  \E hdr \in H, u \in U, params \in P :
    Serve(Request("list", hdr, u, 0, EmptyBody, params), R)

GetTodo(H, U, I, R) ==
  \E hdr \in H, u \in U, id \in I :
    Serve(Request("get", hdr, u, id, EmptyBody, DefaultParams), R)

UpdateTodo(H, U, I, B, R) ==
  \E hdr \in H, u \in U, id \in I, body \in B :
    Serve(Request("update", hdr, u, id, body, DefaultParams), R)

DeleteTodo(H, U, I, R) ==
  \E hdr \in H, u \in U, id \in I :
    Serve(Request("delete", hdr, u, id, EmptyBody, DefaultParams), R)

\* A request whose path matches no route of the two routers.
Unrouted(H) ==
  \E hdr \in H :
    Serve(Request("unrouted", hdr, 0, 0, EmptyBody, DefaultParams), SameTime(clock))

\* The response reaches the client.
Deliver ==
  /\ last.req.op # "none"
  /\ last' = Idle
  /\ UNCHANGED <<store, nextId, clock, born, gone, running, settings>>

\* Time passes between requests.
Tick ==
  /\ last.req.op = "none"
  /\ clock < MaxTime
  /\ clock' = clock + 1
  /\ UNCHANGED <<store, nextId, born, gone, last, running, settings>>

(***************************************************************************)
(* update_todo and delete_todo step by step, for requests served at the    *)
(* same time.  Each request has its own session; a session reads what is   *)
(* committed, and its writes reach the table when it commits.  The steps   *)
(* are the statements the session sends: the select of the handler, the    *)
(* UPDATE or DELETE flushed by commit() together with the commit, and the  *)
(* select of refresh().  The flush of a changed object expects its UPDATE  *)
(* to match one row and raises when it matches none; the flush of a        *)
(* deleted object whose DELETE matches no row only warns.                  *)
(***************************************************************************)
Ended(w, resp) == [running EXCEPT ![w].pc = "done", ![w].resp = resp]

\* The request passes the verifier, the schema, the guard and (update) the check
\* for an empty body, none of which reads the table.
Start(op, U, I, B) ==
  /\ \E w \in Workers, u \in U, id \in I, body \in B :
       /\ running[w].op = "none"
       /\ validate_user_access(PyInt(u), u).ok
       /\ op = "update" =>
            /\ TodoUpdate_errors(body) = <<>>
            /\ model_dump_exclude_unset(TodoUpdate(body)) # {}
       /\ running' = [running EXCEPT ![w] =
                        [op |-> op, pc |-> "select", user_id |-> u, todo_id |-> id,
                         body |-> body, rows |-> {}, resp |-> Success(0, NoBody)]]
  /\ UNCHANGED <<store, nextId, clock, born, gone, last, settings>>

\* session.exec(select(Todo).where(id, user_id)).first(), and the 404 when there
\* is no row.
Select ==
  /\ \E w \in Workers :
       /\ running[w].pc = "select"
       /\ LET found == select_by_id_and_user(store, running[w].todo_id, running[w].user_id)
          IN running' =
               IF found = {}
                 THEN Ended(w, http_exception_handler(NotFound(running[w].todo_id)))
               ELSE [running EXCEPT ![w].pc = "write", ![w].rows = found]
  /\ UNCHANGED <<store, nextId, clock, born, gone, last, settings>>

\* update_todo lines 356-364: the attributes are set on the loaded object and
\* commit() flushes UPDATE ... WHERE id = :id and commits.
UpdateCommit ==
  /\ \E w \in Workers :
       /\ running[w].op = "update"
       /\ running[w].pc = "write"
       /\ LET present == {t \in store : t.id = running[w].todo_id}
              old == CHOOSE t \in present : TRUE
              todo_data == TodoUpdate(running[w].body)
              todo == apply_update(old, todo_data, model_dump_exclude_unset(todo_data), clock)
          IN IF present = {} \/ ~not_null_ok(todo)
               THEN /\ running' = Ended(w, general_exception_handler)
                    /\ store' = store
             ELSE /\ running' = [running EXCEPT ![w].pc = "refresh", ![w].rows = {todo}]
                  /\ store' = (store \ present) \cup {todo}
  /\ UNCHANGED <<nextId, clock, born, gone, last, settings>>

\* update_todo line 365: refresh() selects the row again and raises when it is
\* not there; then the response is built.
UpdateRefresh ==
  /\ \E w \in Workers :
       /\ running[w].pc = "refresh"
       /\ LET present == {t \in store : t.id = running[w].todo_id}
          IN running' =
               IF present = {} THEN Ended(w, general_exception_handler)
               ELSE Ended(w, Success(200, <<TodoResponse(CHOOSE t \in present : TRUE,
                                                         clock)>>))
  /\ UNCHANGED <<store, nextId, clock, born, gone, last, settings>>

\* delete_todo lines 432-435: session.delete, commit() flushing DELETE ... WHERE
\* id = :id, and the 204.
DeleteCommit ==
  /\ \E w \in Workers :
       /\ running[w].op = "delete"
       /\ running[w].pc = "write"
       /\ store' = {t \in store : t.id # running[w].todo_id}
       /\ gone' = gone \cup {running[w].todo_id}
       /\ running' = Ended(w, Success(204, NoBody))
  /\ UNCHANGED <<nextId, clock, born, last, settings>>

\* The response of an ended request reaches the client.
Return ==
  /\ \E w \in Workers :
       /\ running[w].pc = "done"
       /\ running' = [running EXCEPT ![w] = IdleWorker]
  /\ UNCHANGED <<store, nextId, clock, born, gone, last, settings>>

(***************************************************************************)
(* Spec: the five endpoints called by two users with verifiable            *)
(* credentials (and by callers with none), each on its own path and on the *)
(* other user's, with bodies that set declared and undeclared keys.  The   *)
(* clock stands still here; SpecTime is the specification where it moves.  *)
(***************************************************************************)
Str_a == <<" ", "a", " ">>
Str_b == <<"b">>
Str_d == <<"d", " ">>
Str_blank == <<" ", " ">>

BoolToken(u) == Token(TRUE, "good", "ok", MaxTime + 1, PyVal("bool", u))

SpecHeaders == {NoHeader, Bearer(GoodToken(1)), Bearer(GoodToken(2)), Bearer(BoolToken(1))}

TitleOnly(s) == Body(JStr(s), JUnset, JUnset, JUnset, JUnset, JUnset, JUnset, JUnset)

SpecCreateBodies ==
  { TitleOnly(Str_a),
    Body(JStr(Str_b), JStr(Str_d), JBool(TRUE), JTime(1), JStr(PriorityStr("high")),
         JNum(2), JNum(1), JTime(0)),
    TitleOnly(Str_blank) }

SpecUpdateBodies ==
  { EmptyBody,
    Body(JStr(Str_b), JUnset, JUnset, JUnset, JUnset, JNum(2), JNum(2), JTime(MaxTime)),
    Body(JUnset, JUnset, JUnset, JUnset, JUnset, JNum(1), JNum(1), JTime(0)),
    TitleOnly(Str_blank) }

SpecParams ==
  { DefaultParams,
    Params("true", "high", "overdue", "due_date", "asc"),
    Params("", "", "upcoming", "created_at", "desc") }

Next ==
  \/ CreateTodo(SpecHeaders, Users, SpecCreateBodies, SameTime(clock), MaxTodos)
  \/ ListTodos(SpecHeaders, Users, SpecParams, SameTime(clock))
  \/ GetTodo(SpecHeaders, Users, TodoIds, SameTime(clock))
  \/ UpdateTodo(SpecHeaders, Users, TodoIds, SpecUpdateBodies, SameTime(clock))
  \/ DeleteTodo(SpecHeaders, Users, TodoIds, SameTime(clock))
  \/ Deliver

Spec == Init /\ [][Next]_vars

(***************************************************************************)
(* SpecTime: one user creating, updating, reading and deleting todos while *)
(* the clock moves, between requests and between the clock reads of one    *)
(* create or update.                                                       *)
(***************************************************************************)
TimeHeaders == {Bearer(GoodToken(1))}

TimeUsers == {1}

TimeCreateBodies == {TitleOnly(Str_a)}

TimeUpdateBodies == {TitleOnly(Str_b)}

NextTime ==
  \/ CreateTodo(TimeHeaders, TimeUsers, TimeCreateBodies, ReadTimes(clock), MaxTodos)
  \/ ListTodos(TimeHeaders, TimeUsers, {DefaultParams}, SameTime(clock))
  \/ GetTodo(TimeHeaders, TimeUsers, TodoIds, SameTime(clock))
  \/ UpdateTodo(TimeHeaders, TimeUsers, TodoIds, TimeUpdateBodies, ReadTimes(clock))
  \/ DeleteTodo(TimeHeaders, TimeUsers, TodoIds, SameTime(clock))
  \/ Deliver
  \/ Tick

SpecTime == Init /\ [][NextTime]_vars

(***************************************************************************)
(* SpecAuth: the five endpoints called with every kind of Authorization    *)
(* header: none, empty, not a Bearer value, and Bearer tokens that are not *)
(* decodable, wrongly signed, not yet valid, addressed to an audience, or  *)
(* well signed with any expiry (none, past, now, future) and any kind of   *)
(* user_id claim.  The clock moves between requests.                       *)
(***************************************************************************)
MaxAuthTodos == 1

AuthIds == 1..(MaxAuthTodos + 1)

ExpValues == {NoExp} \cup 0..(MaxTime + 1)

UidClaims ==
  {PyInt(1), PyVal("bool", 1), PyVal("str", 1), PyVal("float", 1), PyNone, ClaimAbsent}

AuthTokens ==
  {Token(TRUE, "good", "ok", e, u) : e \in ExpValues, u \in UidClaims}
    \cup {Token(FALSE, "good", "ok", MaxTime + 1, PyInt(1)),
          Token(TRUE, "bad", "ok", MaxTime + 1, PyInt(1)),
          Token(TRUE, "good", "immature", MaxTime + 1, PyInt(1)),
          Token(TRUE, "good", "audience", MaxTime + 1, PyInt(1))}

AuthHeaders ==
  {NoHeader, Header("empty", GoodToken(1)), Header("other", GoodToken(1))}
    \cup {Bearer(t) : t \in AuthTokens}

AuthCreateBodies == {TitleOnly(Str_a), TitleOnly(Str_blank)}

AuthUpdateBodies == {TitleOnly(Str_a)}

NextAuth ==
  \/ CreateTodo(AuthHeaders, Users, AuthCreateBodies, SameTime(clock), MaxAuthTodos)
  \/ ListTodos(AuthHeaders, Users, {DefaultParams}, SameTime(clock))
  \/ GetTodo(AuthHeaders, Users, AuthIds, SameTime(clock))
  \/ UpdateTodo(AuthHeaders, Users, AuthIds, AuthUpdateBodies, SameTime(clock))
  \/ DeleteTodo(AuthHeaders, Users, AuthIds, SameTime(clock))
  \/ Deliver
  \/ Tick

SpecAuth == Init /\ [][NextAuth]_vars

(***************************************************************************)
(* SpecVerify: verify_jwt_token as a function, applied at every instant to *)
(* every header: each raw form, and every combination of what jwt.decode   *)
(* looks at in a Bearer token.  last holds the header, the instant, the    *)
(* principal returned and, when it raised, the response made of the        *)
(* exception.                                                              *)
(***************************************************************************)
VerifyTokens ==
  {Token(wf, sig, reg, e, u) :
     wf \in BOOLEAN, sig \in {"good", "bad"}, reg \in {"ok", "immature", "audience"},
     e \in ExpValues, u \in UidClaims}

VerifyHeaders ==
  {NoHeader, Header("empty", GoodToken(1)), Header("other", GoodToken(1))}
    \cup {Bearer(t) : t \in VerifyTokens}

Verify(H) ==
  /\ last.req.op = "none"
  /\ \E hdr \in H :
       LET auth == verify_jwt_token(hdr, clock) IN
         last' = [Idle EXCEPT
                    !.req = Request("verify", hdr, 0, 0, EmptyBody, DefaultParams),
                    !.reads = [i \in 1..4 |-> clock],
                    !.principal = auth.value,
                    !.resp = IF auth.ok THEN Idle.resp
                             ELSE http_exception_handler(auth.exc),
                    !.trace = <<"verify">>,
                    !.before = store]
  /\ UNCHANGED <<store, nextId, clock, born, gone, running, settings>>

NextVerify ==
  \/ Verify(VerifyHeaders)
  \/ Deliver
  \/ Tick

SpecVerify == Init /\ [][NextVerify]_vars

(***************************************************************************)
(* SpecFields: user 1 creating and updating todos with bodies of every     *)
(* kind: valid ones naming different fields (padded titles, a title of     *)
(* the maximal length, null for a nullable field), a null                  *)
(* title, an empty body, and bodies that fail the schema; user 2 owns      *)
(* todos in the same table.  The clock stands still.                       *)
(***************************************************************************)
LongStr(n) == [i \in 1..n |-> "x"]

Str_pad_b == <<" ", "b">>
Str_urgent == <<"u", "r", "g", "e", "n", "t">>

FieldOwner == {Bearer(GoodToken(1))}
FieldOther == {Bearer(GoodToken(2))}

FullBody ==
  Body(JStr(Str_b), JStr(Str_d), JBool(TRUE), JTime(1), JStr(PriorityStr("high")),
       JUnset, JUnset, JUnset)

InvalidBodies ==
  { TitleOnly(<<>>),
    TitleOnly(Str_blank),
    TitleOnly(LongStr(MaxTitleLen + 1)),
    Body(JStr(Str_b), JStr(LongStr(MaxDescLen + 1)), JUnset, JUnset, JUnset,
         JUnset, JUnset, JUnset),
    Body(JStr(Str_b), JUnset, JUnset, JUnset, JStr(Str_urgent), JUnset, JUnset, JUnset) }

FieldCreateBodies ==
  {TitleOnly(Str_a), TitleOnly(LongStr(MaxTitleLen)), FullBody} \cup InvalidBodies

FieldUpdateBodies ==
  { EmptyBody,
    Body(JStr(Str_pad_b), JUnset, JBool(TRUE), JUnset, JStr(PriorityStr("high")),
         JUnset, JUnset, JUnset),
    Body(JUnset, JNull, JUnset, JTime(0), JUnset, JUnset, JUnset, JUnset),
    Body(JNull, JUnset, JUnset, JUnset, JUnset, JUnset, JUnset, JUnset) }
    \cup InvalidBodies

NextFields ==
  \/ CreateTodo(FieldOwner, {1}, FieldCreateBodies, SameTime(clock), MaxTodos)
  \/ CreateTodo(FieldOther, {2}, {TitleOnly(Str_a)}, SameTime(clock), MaxTodos)
  \/ UpdateTodo(FieldOwner, {1}, TodoIds, FieldUpdateBodies, SameTime(clock))
  \/ Deliver

SpecFields == Init /\ [][NextFields]_vars

(***************************************************************************)
(* SpecClassify: compute_due_date_status as a function, applied to every   *)
(* due date (none, or an instant up to MaxInstant) at every instant now up *)
(* to MaxInstant.  last holds the due date in the body of the request, now *)
(* in the reads, and the todo response carrying the status.                *)
(***************************************************************************)
MaxInstant == 11

Instants == 0..MaxInstant

DueDates == {JNull} \cup {JTime(t) : t \in Instants}

DueOnly(due) == Body(JStr(Str_b), JUnset, JUnset, due, JUnset, JUnset, JUnset, JUnset)

Classify(D, N) ==
  /\ last.req.op = "none"
  /\ \E due \in D, now \in N :
       last' = [Idle EXCEPT
                  !.req = Request("classify", NoHeader, 0, 0, DueOnly(due), DefaultParams),
                  !.reads = [i \in 1..4 |-> now],
                  !.resp = Success(200, <<TodoResponse(
                                            Todo(0, 0, TodoCreate(DueOnly(due)), 0, 0),
                                            now)>>),
                  !.trace = <<"classify">>]
  /\ UNCHANGED <<store, nextId, clock, born, gone, running, settings>>

NextClassify ==
  \/ Classify(DueDates, Instants)
  \/ Deliver

SpecClassify == Init /\ [][NextClassify]_vars

(***************************************************************************)
(* SpecList: user 1 listing their todos with every combination of the      *)
(* documented filter values, and with every documented sort and order,     *)
(* while time passes.  The todos are created at instant 0: without a due   *)
(* date, due at instant 0 and due at the first instant of the next day,    *)
(* with different completed and priority values; user 2 owns todos in the  *)
(* same table.                                                             *)
(***************************************************************************)
ListOwner == {Bearer(GoodToken(1))}

DueBody(completed, due, priority) ==
  Body(JStr(Str_b), JUnset, JBool(completed), JTime(due), JStr(PriorityStr(priority)),
       JUnset, JUnset, JUnset)

ListCreateBodies ==
  {TitleOnly(Str_a), DueBody(TRUE, 0, "high"), DueBody(FALSE, DayLen, "high")}

FilterParams ==
  {Params(c, p, s, "created_at", "desc") :
     c \in {"", "true", "false"},
     p \in {""} \cup PriorityEnum,
     s \in {"", "overdue", "due_today", "upcoming", "no_due_date"}}

SortParams ==
  {Params("", p, "", s, o) :
     p \in {"", "high"},
     s \in {"due_date", "priority", "created_at", "updated_at"},
     o \in {"asc", "desc"}}

ListParams == FilterParams \cup SortParams

NextList ==
  \/ clock = 0 /\ CreateTodo(ListOwner, {1}, ListCreateBodies, SameTime(clock), MaxTodos)
  \/ clock = 0 /\ CreateTodo(FieldOther, {2}, {TitleOnly(Str_a)}, SameTime(clock), MaxTodos)
  \/ ListTodos(ListOwner, {1}, ListParams, SameTime(clock))
  \/ Deliver
  \/ Tick

SpecList == Init /\ [][NextList]_vars

(***************************************************************************)
(* SpecSort: one owner creates todos at different times, removes the due    *)
(* date of the first one, and in the end lists them with every sort        *)
(* attribute and direction.                                                *)
(***************************************************************************)
SortBody(title, completed, due, priority) ==
  Body(JStr(title), JUnset, JBool(completed), due, JStr(PriorityStr(priority)),
       JUnset, JUnset, JUnset)

SortCreateBodies ==
  { SortBody(Str_b, TRUE, JTime(0), "high"),
    SortBody(Str_a, FALSE, JTime(1), "low") }

SortUpdateBodies == {Body(JUnset, JUnset, JUnset, JNull, JUnset, JUnset, JUnset, JUnset)}

DocumentedSorts == {"due_date", "priority", "created_at", "updated_at"}

SortNames == DocumentedSorts \cup {"title", "completed", "id", "metadata", "nothing"}

SortListParams ==
  {DefaultParams} \cup {Params("", "", "", s, o) : s \in SortNames, o \in {"asc", "desc"}}

NextSort ==
  \/ CreateTodo(ListOwner, {1}, SortCreateBodies, SameTime(clock), MaxTodos)
  \/ UpdateTodo(ListOwner, {1}, {1}, SortUpdateBodies, SameTime(clock))
  \/ clock = MaxTime /\ ListTodos(ListOwner, {1}, SortListParams, SameTime(clock))
  \/ Deliver
  \/ Tick

SpecSort == Init /\ [][NextSort]_vars

(***************************************************************************)
(* SpecErrors: requests that end in each kind of error response: no        *)
(* credential, another user's path, a missing todo, a body the schema      *)
(* rejects, an empty update, a handler that raises, and a path that is     *)
(* not routed.                                                             *)
(***************************************************************************)
ErrorHeaders == {NoHeader, Bearer(GoodToken(1)), Bearer(GoodToken(2))}

NullTitle == Body(JNull, JUnset, JUnset, JUnset, JUnset, JUnset, JUnset, JUnset)

ErrorCreateBodies == {TitleOnly(Str_a), TitleOnly(Str_blank), EmptyBody}

ErrorUpdateBodies == {TitleOnly(Str_b), TitleOnly(Str_blank), EmptyBody, NullTitle}

ErrorParams == {DefaultParams, Params("", "", "upcoming", "created_at", "desc")}

NextErrors ==
  \/ CreateTodo(ErrorHeaders, Users, ErrorCreateBodies, SameTime(clock), MaxTodos)
  \/ ListTodos(ErrorHeaders, Users, ErrorParams, SameTime(clock))
  \/ GetTodo(ErrorHeaders, Users, TodoIds, SameTime(clock))
  \/ UpdateTodo(ErrorHeaders, Users, TodoIds, ErrorUpdateBodies, SameTime(clock))
  \/ DeleteTodo(ErrorHeaders, Users, TodoIds, SameTime(clock))
  \/ Unrouted(ErrorHeaders)
  \/ Deliver

SpecErrors == Init /\ [][NextErrors]_vars

(***************************************************************************)
(* SpecRace: one owner creates todos; two workers serve the owner's update *)
(* and delete requests, their steps interleaved in every way.              *)
(***************************************************************************)
RaceUpdateBodies == {TitleOnly(Str_b)}

NextRace ==
  \/ CreateTodo(ListOwner, {1}, {TitleOnly(Str_a)}, SameTime(clock), MaxTodos)
  \/ Deliver
  \/ Start("update", {1}, TodoIds, RaceUpdateBodies)
  \/ Start("delete", {1}, TodoIds, {EmptyBody})
  \/ Select
  \/ UpdateCommit
  \/ UpdateRefresh
  \/ DeleteCommit
  \/ Return

SpecRace == Init /\ [][NextRace]_vars

(***************************************************************************)
(* SpecSignin: signin issues tokens under the loaded settings, and the     *)
(* tokens are presented to the verifier later.  A token's sig field says   *)
(* what jwt.decode(token, settings.BETTER_AUTH_SECRET, algorithms=         *)
(* ["HS256"]) finds: "good" when the token was signed with that key and    *)
(* that algorithm.                                                         *)
(***************************************************************************)
jwt_signature(key, algorithm, cfg) ==
  IF key = cfg.BETTER_AUTH_SECRET /\ algorithm = "HS256" THEN "good" ELSE "bad"

\* timedelta(days=7)
TokenLifetime == 7 * DayLen

\* signin lines 100-113: payload {user_id, email, iat, exp} signed with
\* settings.effective_jwt_secret (JWT_SECRET) and settings.JWT_ALGORITHM.
signin_token(u, cfg, now) ==
  Token(TRUE, jwt_signature(cfg.JWT_SECRET, cfg.JWT_ALGORITHM, cfg), "ok",
        now + TokenLifetime, PyInt(u))

\* The user signs in with the right password and receives the token.
Signin(U) ==
  /\ last.req.op = "none"
  /\ \E u \in U :
       last' = [Idle EXCEPT
                  !.req = Request("signin", Bearer(signin_token(u, settings, clock)), u, 0,
                                  EmptyBody, DefaultParams),
                  !.reads = [i \in 1..4 |-> clock],
                  !.resp = Success(200, NoBody),
                  !.trace = <<"signin">>,
                  !.before = store]
  /\ UNCHANGED <<store, nextId, clock, born, gone, running, settings>>

\* The headers carrying a token that signin has been able to issue so far.
IssuedHeaders ==
  {Bearer(signin_token(u, settings, t)) : u \in UserTable, t \in 0..clock}

NextSignin ==
  \/ Signin(UserTable)
  \/ Verify(IssuedHeaders)
  \/ Deliver
  \/ Tick

SpecSignin == InitSettings /\ [][NextSignin]_vars

(***************************************************************************)
(* Properties of the response in flight.                                   *)
(***************************************************************************)
Pending == last.req.op # "none"

\* The verifier gave a principal; PrincipalId is its number.
Authenticated == last.principal.k # "none"
PrincipalId == last.principal.v

StoreSteps == {"select", "insert", "update", "delete", "commit"}

NoStoreAccess == \A i \in DOMAIN last.trace : last.trace[i] \notin StoreSteps

StoreUntouched == store = last.before /\ last.changed = {} /\ last.added = {}

\* C1: a todo created by A is never in a get or list response to a request
\* authenticated as B # A, and no update or delete authenticated as B changes or
\* removes it, whatever path user_id and todo_id B supplies.
C1_Isolation ==
  (Pending /\ Authenticated) =>
    \A a \in born : a.user_id # PrincipalId =>
      /\ \A i \in DOMAIN last.resp.body : last.resp.body[i].id # a.id
      /\ a.id \notin last.changed
      /\ \A t \in last.before : t.id = a.id => t \in store

\* B deleted, on B's own path, the id of an existing todo of A, and got 404.
C1_Witness ==
  /\ Pending /\ Authenticated
  /\ last.req.op = "delete"
  /\ PrincipalId = 2 /\ last.req.user_id = 2
  /\ \E t \in last.before : t.id = last.req.todo_id /\ t.user_id = 1
  /\ last.resp.status = 404

\* The guard as a function: it succeeds exactly when the principal equals the owner,
\* and otherwise (a missing principal included) raises 403 FORBIDDEN.
GuardPrincipals == {PyInt(1), PyInt(2), PyInt(3), PyVal("bool", 1), PyNone}

GuardIsEquality ==
  \A p \in GuardPrincipals, o \in 1..3 :
    LET access == validate_user_access(p, o) IN
      /\ access.ok <=> (p.k \in {"int", "bool"} /\ p.v = o)
      /\ ~access.ok =>
           /\ http_exception_handler(access.exc).status = 403
           /\ http_exception_handler(access.exc).code = "FORBIDDEN"

\* In every handler the guard comes before any step on the store.
GuardBeforeStore ==
  \A i \in DOMAIN last.trace :
    last.trace[i] \in StoreSteps => \E j \in 1..(i - 1) : last.trace[j] = "guard"

PrincipalDiffers ==
  Pending /\ Authenticated /\ PrincipalId # last.req.user_id

OwnPath ==
  /\ Pending /\ Authenticated
  /\ last.req.op \in {"get", "update", "delete"}
  /\ last.req.user_id = PrincipalId

OthersOwnTarget ==
  \E t \in last.before : t.id = last.req.todo_id /\ t.user_id # PrincipalId

C7_SameNotFound ==
  OwnPath =>
    LET own == {t \in last.before : t.user_id = PrincipalId}
        alone == handle(last.req, own, nextId, [i \in 1..MaxTodos |-> i], last.reads)
    IN /\ alone.resp = last.resp
       /\ (/\ OthersOwnTarget
           /\ schema_errors(last.req) = <<>>
           /\ (last.req.op = "update" =>
                 \E f \in SchemaFields : last.req.body[f].k # "unset"))
          => last.resp = Response(404, "NOT_FOUND",
                                  Msg("Todo with ID not found", last.req.todo_id),
                                  <<>>, NoBody)

\* User 2 asked on its own path for the id of an existing todo of user 1.
C7_Witness ==
  /\ OwnPath /\ OthersOwnTarget
  /\ last.req.op = "get"
  /\ last.resp.status = 404

\* C8: the id, owner and created_at of a stored todo are those it was inserted
\* with, and an update answers with them unchanged, whatever keys its body carries.
C8_OwnerImmutable ==
  /\ \A t \in store :
       \E b \in born : b.id = t.id /\ b.user_id = t.user_id /\ b.created_at = t.created_at
  /\ \A t1, t2 \in store : t1.id = t2.id => t1 = t2
  /\ (Pending /\ last.req.op = "update" /\ last.resp.status = 200) =>
       \E old \in last.before :
         /\ old.id = last.req.todo_id
         /\ last.resp.body[1].id = old.id
         /\ last.resp.body[1].user_id = old.user_id
         /\ last.resp.body[1].created_at = old.created_at

\* A successful update whose body carried another user_id, another id and another
\* created_at.
C8_Witness ==
  /\ Pending /\ last.req.op = "update" /\ last.resp.status = 200
  /\ last.req.body.user_id.k # "unset" /\ last.req.body.user_id.n # last.req.user_id
  /\ last.req.body.id.k # "unset" /\ last.req.body.id.n # last.req.todo_id
  /\ last.req.body.created_at.k # "unset"
  /\ \E old \in last.before :
       old.id = last.req.todo_id /\ old.created_at # last.req.body.created_at.n

(***************************************************************************)
(* Properties of the credential of the request in flight.                  *)
(***************************************************************************)
IsBearer == last.req.hdr.raw = "bearer"
Tok == last.req.hdr.token
Now == last.reads[1]

Decodable == Tok.wellformed /\ Tok.sig = "good"
TokExpired == Tok.exp # NoExp /\ Tok.exp <= Now

\* The 401 UNAUTHORIZED response, no principal given.
Rejected ==
  /\ last.resp.status = 401 /\ last.resp.code = "UNAUTHORIZED"
  /\ ~Authenticated

RejectedAs(text) == Rejected /\ last.resp.details = <<Msg(text, 0)>>

\* Nothing ran after the verifier.
StoppedAtVerifier == last.trace = <<"verify">> /\ StoreUntouched

\* A credential that is missing, malformed, wrongly signed, expired, or without an
\* integer user_id claim.
BadCredential ==
  \/ ~IsBearer
  \/ ~Decodable
  \/ TokExpired
  \/ Tok.uid.k # "int"

\* C3 as stated: a request whose credential is missing, malformed, wrongly signed,
\* expired or without a valid user_id claim gets 401 UNAUTHORIZED before the guard,
\* the handler and the store, whatever its path and body.
C3_AsStated ==
  (Pending /\ BadCredential) => (Rejected /\ StoppedAtVerifier)

\* C4: the verifier is a total function of (header, now) with exactly one outcome:
\* no or empty header: 401 missing; a header that is not a Bearer value: 401
\* malformed; an undecodable or wrongly signed token (and one whose nbf, iat or aud
\* claim jwt.decode refuses): 401 invalid; otherwise exp <= now: 401 expired;
\* otherwise an integer user_id claim: success with exactly that claim as principal.
\* Every failure is a 401 UNAUTHORIZED that names its kind.
C4_VerifierTotal ==
  (Pending /\ last.req.op = "verify") =>
    /\ Authenticated <=> ~Rejected
    /\ Authenticated => (last.principal = Tok.uid /\ last.resp = Idle.resp)
    /\ Rejected =>
         \E text \in {"Missing authentication token", "Invalid token format",
                      "Invalid token signature", "Token expired",
                      "Invalid token claims", "Invalid user_id in token"} :
           RejectedAs(text)
    /\ last.req.hdr.raw \in {"none", "empty"} => RejectedAs("Missing authentication token")
    /\ last.req.hdr.raw = "other" => RejectedAs("Invalid token format")
    /\ (IsBearer /\ ~Decodable) => RejectedAs("Invalid token signature")
    /\ (IsBearer /\ Decodable /\ Tok.reg # "ok") =>
         (RejectedAs("Invalid token signature") \/ RejectedAs("Token expired"))
    /\ (IsBearer /\ Decodable /\ Tok.reg = "ok" /\ TokExpired) =>
         RejectedAs("Token expired")
    /\ (IsBearer /\ Decodable /\ Tok.reg = "ok" /\ ~TokExpired /\ Tok.uid.k = "int") =>
         (Authenticated /\ last.principal = Tok.uid)

\* The verifier returned the integer claim of a well signed token after the instant 0.
C4_Witness ==
  /\ Pending /\ last.req.op = "verify"
  /\ IsBearer /\ Decodable /\ Tok.reg = "ok" /\ Tok.exp = Now + 1 /\ Now > 0
  /\ last.principal = PyInt(1)

\* C5: on every protected endpoint a token carrying exp is rejected with 401 when
\* exp <= now and nothing runs after the verifier; it is accepted only while
\* exp > now, and a well signed token with an integer user_id is accepted then.
C5_ExpiryEnforced ==
  (Pending /\ IsBearer /\ Tok.exp # NoExp) =>
    /\ Tok.exp <= Now => (Rejected /\ StoppedAtVerifier)
    /\ Authenticated => Tok.exp > Now
    /\ (Decodable /\ Tok.reg = "ok" /\ Tok.uid.k = "int" /\ Tok.exp > Now)
         => Authenticated

\* User 1 asked for its own existing todo with a token that expires at this instant.
C5_Witness ==
  /\ Pending /\ last.req.op = "get"
  /\ IsBearer /\ Tok = Token(TRUE, "good", "ok", Now, PyInt(1))
  /\ last.req.user_id = 1
  /\ \E t \in last.before : t.id = last.req.todo_id /\ t.user_id = 1
  /\ last.resp.status = 401

\* C6 as stated: a well signed, unexpired token whose user_id claim is not an integer
\* (a string, a boolean, null, a float, or absent) is rejected with 401, so the
\* guard and the handlers only ever see an integer principal.
C6_AsStated ==
  /\ (Pending /\ IsBearer /\ Tok.uid.k # "int") => Rejected
  /\ \A i \in DOMAIN last.trace : last.trace[i] = "guard" => last.principal.k = "int"

(***************************************************************************)
(* Properties of the timestamps.                                           *)
(***************************************************************************)
\* C9: with a clock that never moves backwards, every stored todo, and every todo
\* in a response, has updated_at >= created_at.
C9_UpdatedNotBeforeCreated ==
  /\ \A t \in store : t.updated_at >= t.created_at
  /\ \A i \in DOMAIN last.resp.body :
       last.resp.body[i].updated_at >= last.resp.body[i].created_at

\* An update at a later instant than the creation of the todo it changed.
C9_Witness ==
  /\ Pending /\ last.req.op = "update" /\ last.resp.status = 200
  /\ last.resp.body[1].updated_at > last.resp.body[1].created_at
  /\ \E t \in store : t.id = last.req.todo_id /\ t.updated_at > t.created_at

\* C10 as stated: the todo a successful create returns has updated_at equal to
\* created_at, also when the clock advances between the reads of the create.
C10_AsStated ==
  (Pending /\ last.req.op = "create" /\ last.resp.status = 201) =>
    last.resp.body[1].updated_at = last.resp.body[1].created_at

\* The update in flight succeeded; Target is the row it found, Updated the row now
\* stored under the same id.
UpdateDone == Pending /\ last.req.op = "update" /\ last.resp.status = 200

Target == CHOOSE t \in last.before : t.id = last.req.todo_id

Updated == CHOOSE t \in store : t.id = last.req.todo_id

\* C11 as stated: after every successful update the todo's updated_at is strictly
\* greater than it was before the update, whatever fields the body supplied.
C11_AsStated ==
  UpdateDone =>
    /\ Updated.updated_at > Target.updated_at
    /\ last.resp.body[1].updated_at > Target.updated_at

(***************************************************************************)
(* Properties of the request bodies.                                       *)
(***************************************************************************)
\* The schema fields the body of the request in flight names.
Named == {f \in SchemaFields : last.req.body[f].k # "unset"}

\* The owner's request on the owner's path.
ByOwner == Pending /\ Authenticated /\ PrincipalId = last.req.user_id

\* C12: a successful update changes, of the target todo, only the fields its body
\* names and updated_at, and leaves every other todo of the store as it was.
C12_OnlyNamedFields ==
  UpdateDone =>
    /\ \A f \in DOMAIN Target :
         f \notin (Named \cup {"updated_at"}) => Updated[f] = Target[f]
    /\ \A t \in last.before : t.id # last.req.todo_id => t \in store
    /\ \A t \in store : t.id # last.req.todo_id => t \in last.before

\* An update naming description and due_date changed them on a todo whose title,
\* completed and priority are not the defaults, beside a todo of another user.
C12_Witness ==
  /\ UpdateDone
  /\ Named = {"description", "due_date"}
  /\ Target.description # Updated.description /\ Target.due_date # Updated.due_date
  /\ Target.completed = JBool(TRUE) /\ Updated.completed = JBool(TRUE)
  /\ \E t \in store : t.id # last.req.todo_id /\ t.user_id # last.req.user_id

\* C13: an update by the owner whose body names no field answers 422
\* VALIDATION_ERROR and leaves the store, the target's updated_at included, as it
\* was, whether or not the target exists.
C13_EmptyUpdate ==
  (ByOwner /\ last.req.op = "update" /\ Named = {}) =>
    /\ last.resp.status = 422 /\ last.resp.code = "VALIDATION_ERROR"
    /\ StoreUntouched
    /\ NoStoreAccess

\* The owner sent {} to an existing todo of theirs.
C13_Witness ==
  /\ ByOwner /\ last.req.op = "update" /\ last.req.body = EmptyBody
  /\ \E t \in store : t.id = last.req.todo_id /\ t.user_id = last.req.user_id
  /\ last.resp.status = 422

\* A string without leading or trailing whitespace.
Trimmed(s) == s # <<>> /\ Head(s) \notin Whitespace /\ s[Len(s)] \notin Whitespace

\* C14: every stored title is a string, non-empty, equal to its trimmed form and at
\* most 200 characters long, also after an update whose title is null; a title
\* sent with surrounding whitespace is stored without it.
C14_TitleNormalized ==
  /\ \A t \in store :
       /\ t.title.k = "str"
       /\ Trimmed(t.title.s)
       /\ Len(t.title.s) <= MaxTitleLen
  /\ (Pending /\ last.req.op \in {"create", "update"} /\ last.resp.status \in {200, 201}) =>
       /\ last.req.body.title = JStr(Str_a) => last.resp.body[1].title = JStr(<<"a">>)
       /\ last.req.body.title = JStr(Str_pad_b) => last.resp.body[1].title = JStr(<<"b">>)
       /\ \E t \in store : t.id = last.resp.body[1].id /\ t.title = last.resp.body[1].title

\* An update whose title had leading whitespace changed the stored title to the
\* title without it.
C14_Witness ==
  /\ UpdateDone
  /\ last.req.body.title = JStr(Str_pad_b)
  /\ Target.title # JStr(<<"b">>)
  /\ Updated.title = JStr(<<"b">>)

AllWhitespace(s) == \A i \in DOMAIN s : s[i] \in Whitespace

\* A body with an empty or whitespace-only title, a title of more than 200
\* characters, a description of more than 1000, or a priority that is none of high,
\* medium, low.
InvalidInput(body) ==
  \/ body.title.k = "str" /\ (AllWhitespace(body.title.s) \/ Len(body.title.s) > 200)
  \/ body.description.k = "str" /\ Len(body.description.s) > 1000
  \/ /\ body.priority.k = "str"
     /\ body.priority.s \notin {PriorityStr(p) : p \in {"high", "medium", "low"}}

\* C15: a create or update with invalid input is answered 422 VALIDATION_ERROR
\* before any step on the store, which is the same before and after.
C15_RejectedBeforeStore ==
  (Pending /\ Authenticated /\ last.req.op \in {"create", "update"}
     /\ InvalidInput(last.req.body)) =>
    /\ last.resp.status = 422 /\ last.resp.code = "VALIDATION_ERROR"
    /\ NoStoreAccess
    /\ StoreUntouched

\* The owner sent a whitespace-only title to an existing todo of theirs.
C15_Witness ==
  /\ ByOwner /\ last.req.op = "update"
  /\ last.req.body.title = JStr(Str_blank)
  /\ \E t \in store : t.id = last.req.todo_id /\ t.user_id = last.req.user_id
  /\ last.resp.status = 422

(***************************************************************************)
(* Properties of deleted todos.                                            *)
(***************************************************************************)
\* The ids whose delete had been answered 204 before the request in flight.
GoneBefore ==
  IF last.req.op = "delete" /\ last.req.todo_id \in last.changed
    THEN gone \ {last.req.todo_id}
    ELSE gone

\* C16: once a delete of id T was answered 204, T is in no later state of the store
\* and in no later response; a later delete of T is answered 404 (not 204, not
\* 500), and so is a later get or update of T (an update whose body is empty or
\* invalid gets its 422).
C16_DeletePermanent ==
  /\ \A t \in store : t.id \notin gone
  /\ \A i \in DOMAIN last.resp.body : last.resp.body[i].id \notin GoneBefore
  /\ (Pending /\ last.req.op \in {"get", "update", "delete"}
        /\ last.req.todo_id \in GoneBefore) =>
       /\ last.resp.status \notin {200, 204, 500}
       /\ StoreUntouched
       /\ ByOwner =>
            IF last.req.op = "update" /\ (schema_errors(last.req) # <<>> \/ Named = {})
              THEN last.resp.status = 422
              ELSE last.resp.status = 404 /\ last.resp.code = "NOT_FOUND"

\* The user who had created and deleted a todo asked to delete it again, after
\* creating another one.
C16_Witness ==
  /\ ByOwner /\ last.req.op = "delete"
  /\ last.req.todo_id \in GoneBefore
  /\ \E b \in born : b.id = last.req.todo_id /\ b.user_id = PrincipalId
  /\ \E t \in store : t.user_id = PrincipalId /\ t.id > last.req.todo_id
  /\ last.resp.status = 404

(***************************************************************************)
(* Properties of the due date status.                                      *)
(***************************************************************************)
Statuses == {"overdue", "due_today", "upcoming", "no_due_date"}

\* The calendar day an instant falls in.
DayOf(t) == CHOOSE d \in 0..t : d * DayLen <= t /\ t < (d + 1) * DayLen

\* The status the calendar dates of a due date and of now give.
StatusByDate(due, now) ==
  IF due.k = "null" THEN "no_due_date"
  ELSE IF DayOf(due.n) < DayOf(now) THEN "overdue"
  ELSE IF DayOf(due.n) = DayOf(now) THEN "due_today"
  ELSE "upcoming"

\* C17: compute_due_date_status gives exactly one of the four statuses, a function
\* of (due_date, now) that compares calendar dates: no due date -> no_due_date, an
\* earlier day -> overdue, the same day -> due_today whatever the instants,
\* a later day -> upcoming.
C17_StatusByDate ==
  (Pending /\ last.req.op = "classify") =>
    LET due == last.req.body.due_date
        now == last.reads[4]
        s == last.resp.body[1].due_date_status
    IN /\ s \in Statuses
       /\ s = StatusByDate(due, now)
       /\ s = compute_due_date_status(due, now)
       /\ (due.k = "time" /\ DayOf(due.n) = DayOf(now)) => s = "due_today"

\* A due date earlier than now on the same day was classified due_today.
C17_Witness ==
  /\ Pending /\ last.req.op = "classify"
  /\ last.req.body.due_date.k = "time"
  /\ last.req.body.due_date.n < last.reads[4]
  /\ DayOf(last.req.body.due_date.n) = DayOf(last.reads[4])
  /\ last.resp.body[1].due_date_status = "due_today"

(***************************************************************************)
(* Properties of list responses.                                           *)
(***************************************************************************)
\* The owner's list request in flight, and the ids its response holds.
OwnerList == ByOwner /\ last.req.op = "list"

Listed == {last.resp.body[i].id : i \in DOMAIN last.resp.body}

\* The todo passes the completed and priority filters of the request in flight.
PassesFilters(t) ==
  /\ last.req.params.completed = "true" => t.completed = JBool(TRUE)
  /\ last.req.params.completed = "false" => t.completed = JBool(FALSE)
  /\ last.req.params.priority # "" => PriorityOf(t.priority.s) = last.req.params.priority

\* C18 as stated: list with due_date_status=S returns exactly the owner's todos
\* passing the other filters whose status for (due_date, now) is S, each carrying
\* the status S.
C18_AsStated ==
  (OwnerList /\ last.req.params.due_date_status # "") =>
    /\ last.resp.status = 200
    /\ Listed = {t.id : t \in {x \in last.before :
                                 /\ x.user_id = PrincipalId
                                 /\ PassesFilters(x)
                                 /\ StatusByDate(x.due_date, last.reads[2])
                                      = last.req.params.due_date_status}}
    /\ \A i \in DOMAIN last.resp.body :
         last.resp.body[i].due_date_status = last.req.params.due_date_status

\* C19 as stated: the owner's list with any combination of documented parameter
\* values is answered 200 with a sequence.
C19_AsStated ==
  OwnerList => (last.resp.status = 200 /\ last.resp.code = "")

\* C20: with no due_date_status filter, the owner's list is answered 200 with
\* exactly the todos of the principal that pass every supplied filter among
\* completed and priority, each once: all of the principal's todos when none is
\* supplied.
C20_FiltersConjunctive ==
  (OwnerList /\ last.req.params.due_date_status = "") =>
    /\ last.resp.status = 200
    /\ Listed = {t.id : t \in {x \in last.before :
                                 x.user_id = PrincipalId /\ PassesFilters(x)}}
    /\ Cardinality(Listed) = Len(last.resp.body)
    /\ \A i \in DOMAIN last.resp.body :
         \E t \in last.before :
           /\ t.id = last.resp.body[i].id
           /\ last.resp.body[i] = TodoResponse(t, last.reads[4])
    /\ StoreUntouched

\* completed=false and priority=high were both supplied: of the principal's two
\* high-priority todos only the one not completed was returned.
C20_Witness ==
  /\ OwnerList
  /\ last.req.params.completed = "false" /\ last.req.params.priority = "high"
  /\ last.req.params.due_date_status = ""
  /\ Len(last.resp.body) = 1
  /\ \E t \in store :
       /\ t.user_id = PrincipalId /\ t.id \notin Listed
       /\ PriorityOf(t.priority.s) = "high"

\* The key of a listed todo under a documented sort field, and whether it is
\* null.
ListedKey(r, sort) ==
  CASE sort = "due_date" -> r.due_date.n
    [] sort = "priority" -> priority_rank(r.priority)
    [] OTHER -> r[sort]

ListedKeyNull(r, sort) == sort = "due_date" /\ r.due_date.k = "null"

\* The listed todos with a non-null key under sort come in the direction order.
ListedInOrder(sort, order) ==
  \A i, j \in DOMAIN last.resp.body :
    (/\ i < j
     /\ ~ListedKeyNull(last.resp.body[i], sort)
     /\ ~ListedKeyNull(last.resp.body[j], sort))
    => IF order = "asc"
         THEN ListedKey(last.resp.body[i], sort) <= ListedKey(last.resp.body[j], sort)
         ELSE ListedKey(last.resp.body[i], sort) >= ListedKey(last.resp.body[j], sort)

\* C21: the list of the owner's todos comes ordered by the requested sort field
\* (due_date, priority, created_at, updated_at) in the requested direction over
\* the todos whose key is not null: non-decreasing for asc, non-increasing for
\* desc; with no sort and order parameters it is created_at descending.
C21_Ordered ==
  (OwnerList /\ last.req.params.sort \in DocumentedSorts)
    => /\ last.resp.status = 200
       /\ ListedInOrder(last.req.params.sort, last.req.params.order)
       /\ Listed = {t.id : t \in {x \in last.before : x.user_id = last.req.user_id}}

\* Two todos with different non-null due dates are listed by due_date, ascending.
C21_Witness ==
  /\ OwnerList
  /\ last.req.params.sort = "due_date"
  /\ last.req.params.order = "asc"
  /\ \E i, j \in DOMAIN last.resp.body :
       /\ i < j
       /\ last.resp.body[i].due_date.k # "null"
       /\ last.resp.body[j].due_date.k # "null"
       /\ last.resp.body[i].due_date.n < last.resp.body[j].due_date.n
       /\ last.resp.body[i].created_at > last.resp.body[j].created_at

\* C22 as stated: a list request whose sort value is not one of the four
\* documented fields succeeds and is ordered as for sort=created_at with the
\* same direction.
C22_AsStated ==
  (OwnerList /\ last.req.params.sort \notin DocumentedSorts)
    => /\ last.resp.status = 200
       /\ ListedInOrder("created_at", last.req.params.order)


\* The response is not a success, and its body is the error object with the code
\* of its status, a message and a sequence of detail strings.
Failed == Pending /\ (last.resp.status < 200 \/ last.resp.status > 299)

ErrorShaped ==
  /\ last.resp.body = NoBody
  /\ last.resp.code = status_code_map(last.resp.status)
  /\ last.resp.code # "ERROR"
  /\ last.resp.message # Msg("", 0)
  /\ \A i \in DOMAIN last.resp.details : last.resp.details[i] # Msg("", 0)

\* C23 as stated: every response that is not 2xx, for any request, has the body
\* {error: {code, message, details}} with the code of its status (UNAUTHORIZED,
\* FORBIDDEN, NOT_FOUND, VALIDATION_ERROR, INTERNAL_SERVER_ERROR), and every 500
\* carries the same fixed message.
C23_AsStated ==
  Failed => /\ ErrorShaped
            /\ last.resp.status = 500 => last.resp = general_exception_handler


\* The owner's create with a body the schema accepts, and the row it added.
CreateOk ==
  ByOwner /\ last.req.op = "create" /\ TodoCreate_errors(last.req.body) = <<>>

Created == CHOOSE t \in store : t \notin last.before

\* The value stored for a text field sent as a string.
StoredText(v) == IF strip(v.s) = <<>> THEN JNull ELSE JStr(strip(v.s))

\* C24: a valid create by principal P on P's path is answered 201 and adds exactly
\* one todo, leaving the others as they were; the new todo has an id no todo
\* ever had, user_id P, the supplied fields in normalized form, completed false
\* and priority medium when omitted, and the response carries the status the
\* classifier gives for its due date.
C24_CreateAddsOne ==
  CreateOk =>
    /\ last.resp.status = 201
    /\ Cardinality(store \ last.before) = 1
    /\ last.before \subseteq store
    /\ \A t \in last.before : Created.id # t.id
    /\ Created.id \notin gone
    /\ \A b \in born : b.id = Created.id =>
         b.user_id = Created.user_id /\ b.created_at = Created.created_at
    /\ Created.user_id = PrincipalId
    /\ Created.user_id = last.req.user_id
    /\ Created.title = StoredText(last.req.body.title)
    /\ Created.title.k = "str"
    /\ Created.description =
         (IF last.req.body.description.k = "str"
            THEN StoredText(last.req.body.description) ELSE JNull)
    /\ Created.completed =
         (IF last.req.body.completed.k = "unset" THEN JBool(FALSE)
          ELSE last.req.body.completed)
    /\ PriorityOf(Created.priority.s) =
         (IF last.req.body.priority.k = "unset" THEN "medium"
          ELSE PriorityOf(last.req.body.priority.s))
    /\ Created.due_date =
         (IF last.req.body.due_date.k = "unset" THEN JNull ELSE last.req.body.due_date)
    /\ Len(last.resp.body) = 1
    /\ \A f \in DOMAIN Created : last.resp.body[1][f] = Created[f]
    /\ last.resp.body[1].due_date_status = StatusByDate(Created.due_date, last.reads[4])

\* A create with only a title, after the todo with the id before it was deleted.
C24_Witness ==
  /\ CreateOk
  /\ last.req.body = TitleOnly(Str_a)
  /\ gone # {}
  /\ \A t \in last.before : t.id \notin gone
  /\ \E t \in store : t \notin last.before /\ t.id \notin gone


\* The worker's request has ended, with this status.
EndedAs(w, op) == running[w].op = op /\ running[w].pc = "done"

\* C25 as stated: an update served while a delete of the same todo by the same
\* owner is served ends, in every interleaving of their steps, in 200 or in 404
\* and never in 500, and the row is absent once the delete has been answered 204.
C25_AsStated ==
  /\ \A w \in Workers :
       EndedAs(w, "update") => running[w].resp.status \in {200, 404}
  /\ \A w \in Workers :
       (EndedAs(w, "delete") /\ running[w].resp.status = 204)
         => \A t \in store : t.id # running[w].todo_id

\* C26 as stated: of two deletes of the same existing todo by its owner served
\* at the same time, exactly one is answered 204 and the other 404.
C26_AsStated ==
  \A v, w \in Workers :
    (/\ v # w
     /\ EndedAs(v, "delete")
     /\ EndedAs(w, "delete")
     /\ running[v].todo_id = running[w].todo_id
     /\ running[v].rows # {})
    => /\ running[v].resp.status = 204
       /\ running[w].resp.status = 404


\* C27 as stated: under every configuration that Settings accepts, a token that
\* signin issued for user U, presented before its expiry, is accepted by the
\* verifier with principal U.
C27_AsStated ==
  \A u \in UserTable, t \in 0..clock :
    (/\ Pending
     /\ last.req.op = "verify"
     /\ last.req.hdr = Bearer(signin_token(u, settings, t))
     /\ Now < t + TokenLifetime)
    => /\ last.resp.status = Idle.resp.status
       /\ last.principal = PyInt(u)


\* C28 as stated: every update that passes the schema and names at least one
\* field, on an existing todo of the principal, including one that sends null
\* for title, completed or priority, is answered 200 and leaves the stored todo
\* within the data-model constraints.
C28_AsStated ==
  (/\ ByOwner
   /\ last.req.op = "update"
   /\ TodoUpdate_errors(last.req.body) = <<>>
   /\ Named # {}
   /\ \E t \in last.before : t.id = last.req.todo_id /\ t.user_id = last.req.user_id)
  => /\ last.resp.status = 200
     /\ Updated.title.k = "str"
     /\ Trimmed(Updated.title.s)
     /\ Updated.completed.k = "bool"
     /\ PriorityOf(Updated.priority.s) \in PriorityEnum


====
